---- MODULE Spec2Model ----
(***************************************************************************)
(* The chat page of lutha-chromaDB-chatbot-UI as a state machine.          *)
(*                                                                         *)
(* Two variants of the page exist in the repository: the local one         *)
(* (src/src/pages/Index.tsx: canned replies after a 2000 ms timer, a       *)
(* seeded document list) and the remote one (src/unnamed/part_000: axios   *)
(* calls to a backend).  `variant` selects one in Init and never changes.  *)
(*                                                                         *)
(* JavaScript runs every handler and every continuation of an async        *)
(* function to completion, so one action is one such run: an event         *)
(* handler up to its first await, the code between two awaits, a timer     *)
(* callback.  Network calls and timers in flight are kept in `chat`,       *)
(* `refreshes`, `uploading` and `indexTimers`.                             *)
(*                                                                         *)
(* Text typed by the user is a sequence of one-character strings, so that  *)
(* trim, toLowerCase and includes are computed; a canned reply is a        *)
(* sequence holding one string.  Date.now().toString() is injective and    *)
(* is kept as the number.  An optional field (sources?) is <<>> when       *)
(* absent and <<v>> when it holds v.                                       *)
(***************************************************************************)
EXTENDS Integers, Sequences, FiniteSets, TLC

VARIABLES
    variant,       \* "local" (Index.tsx) or "remote" (part_000)
    mounted,       \* the ChatInterface view is mounted
    now,           \* Date.now() at the last handler that read the clock
    input,         \* React state `input` of ChatInterface
    messages,      \* store: state.chat.messages
    isProcessing,  \* store: state.chat.isProcessing
    documents,     \* store: state.chat.documents
    isIndexing,    \* store: state.chat.isIndexing
    indexedCount,  \* store: state.chat.indexedCount (remote variant only)
    chat,          \* resolutions in flight: pending reply timers / postChatMessage calls
    refreshes,     \* fetchStatusAndDocuments runs in flight
    nRefresh,      \* number of fetchStatusAndDocuments runs started so far
    uploading,     \* uploadDocument calls in flight
    indexTimers,   \* pending timers of handleIndexDocuments
    nIngest,       \* number of uploads / re-index requests accepted so far
    nPoll,         \* number of firings of the polling interval so far
    lastOp,        \* the handler or continuation that ran last, and on what
    origin         \* history kept by DocsSpec: the refresh (rid) that wrote indexedCount
                   \* and documents last, and the refreshes that ran to their end

vars == <<variant, mounted, now, input, messages, isProcessing, documents,
          isIndexing, indexedCount, chat, refreshes, nRefresh, uploading,
          indexTimers, nIngest, nPoll, lastOp, origin>>

storeVars == <<messages, isProcessing, documents, isIndexing, indexedCount>>
docVars == <<documents, isIndexing, indexedCount>>
ingestVars == <<refreshes, nRefresh, uploading, indexTimers, nIngest, nPoll, origin>>

-----------------------------------------------------------------------------
(* Bounds of the model *)

MaxSubmissions == 2   \* accepted submissions per behaviour
MaxPanelOps == 2      \* uploads, re-index requests and polling firings per behaviour
MaxElapsed == 1       \* milliseconds that may pass before a handler reads the clock
MaxCount == 2         \* largest indexed_count the status endpoint reports

(* Program constants *)

TimerDelay == 2000    \* setTimeout(..., 2000)

-----------------------------------------------------------------------------
(* Text *)

UpperCase == <<"A","B","C","D","E","F","G","H","I","J","K","L","M",
               "N","O","P","Q","R","S","T","U","V","W","X","Y","Z">>
LowerCase == <<"a","b","c","d","e","f","g","h","i","j","k","l","m",
               "n","o","p","q","r","s","t","u","v","w","x","y","z">>
WhiteSpace == {" ", "\t", "\n"}

SetMin(S) == CHOOSE x \in S : \A y \in S : x <= y
SetMax(S) == CHOOSE x \in S : \A y \in S : x >= y

toLowerCaseChar(c) ==
    IF \E i \in 1..26 : UpperCase[i] = c
    THEN LowerCase[CHOOSE i \in 1..26 : UpperCase[i] = c]
    ELSE c

toLowerCase(s) == [i \in 1..Len(s) |-> toLowerCaseChar(s[i])]

trim(s) ==
    LET keep == {i \in 1..Len(s) : s[i] \notin WhiteSpace}
    IN  IF keep = {} THEN <<>> ELSE SubSeq(s, SetMin(keep), SetMax(keep))

includes(s, sub) ==
    \E i \in 0..(Len(s) - Len(sub)) : SubSeq(s, i + 1, i + Len(sub)) = sub

KwRevenue == <<"r","e","v","e","n","u","e">>
KwQ3 == <<"q","3">>
KwFinancial == <<"f","i","n","a","n","c","i","a","l">>
KwContact == <<"c","o","n","t","a","c","t">>
KwSupport == <<"s","u","p","p","o","r","t">>
KwCustomer == <<"c","u","s","t","o","m","e","r">>
KwProduct == <<"p","r","o","d","u","c","t">>
KwFeature == <<"f","e","a","t","u","r","e">>
KwSpecification == <<"s","p","e","c","i","f","i","c","a","t","i","o","n">>

(* Inputs the user types *)
QEmpty == <<>>
QBlank == <<" "," "," ">>
QTab == <<"\t"," ","\n">>
QHello == <<"h","e","l","l","o">>
QQ3 == <<" ","Q","3"," ">>
QRevenue == <<"W","h","a","t"," ","w","a","s"," ","t","h","e"," ","Q","3"," ","r","e","v","e","n","u","e","?">>
QRevSupport == <<" ","r","e","v","e","n","u","e"," ","a","n","d"," ","s","u","p","p","o","r","t"," ">>
QSupportProduct == <<"S","u","p","p","o","r","t"," ","f","o","r"," ","t","h","e"," ","p","r","o","d","u","c","t">>
QFinProduct == <<"p","r","o","d","u","c","t"," ","f","i","n","a","n","c","i","a","l">>
QCustomerSpec == <<"c","u","s","t","o","m","e","r"," ","s","p","e","c","i","f","i","c","a","t","i","o","n">>
QContact == <<"c","o","n","t","a","c","t">>
QFeature == <<"F","E","A","T","U","R","E"," ","l","i","s","t","\n">>

\* what the page's state machine is driven with
Inputs == {QEmpty, QBlank, QQ3, QHello}
\* what the resolver is driven with
Queries == {QEmpty, QBlank, QTab, QHello, QQ3, QRevenue, QRevSupport,
            QSupportProduct, QFinProduct, QCustomerSpec, QContact, QFeature}

-----------------------------------------------------------------------------
(* The local resolver *)

FinancialReply ==
    [content |-> <<"Based on our Q3 Financial Report, revenue increased by 23% year-over-year, reaching $4.2M in total revenue. The growth was primarily driven by our enterprise segment, which saw a 35% increase. Our customer acquisition cost decreased by 15%, while customer lifetime value increased by 20%.">>,
     sources |-> <<[title |-> "Q3 Financial Report", reference |-> "Page 12, Section 3.2"],
                   [title |-> "Market Analysis Report", reference |-> "Page 8"]>>]

SupportReply ==
    [content |-> <<"Our customer support team is available 24/7 through multiple channels. You can reach us via email at support@company.com, phone at 1-800-SUPPORT, or through our live chat. According to our service manual, average response time is under 2 hours for email inquiries and immediate for live chat.">>,
     sources |-> <<[title |-> "Customer Service Manual", reference |-> "Chapter 2, Contact Information"],
                   [title |-> "Product Specifications", reference |-> "Support Section"]>>]

ProductReply ==
    [content |-> <<"Our product suite includes three main offerings: Enterprise Platform (with advanced analytics and API access), Professional Plan (with team collaboration features), and Starter Plan (ideal for small teams). Each plan includes 99.9% uptime guarantee, real-time data synchronization, and dedicated support.">>,
     sources |-> <<[title |-> "Product Specifications", reference |-> "Overview, Pages 1-5"],
                   [title |-> "CEO Transcript 2024", reference |-> "Product Roadmap Discussion"]>>]

FallbackReply ==
    [content |-> <<"I can only provide information based on the indexed documents. Please ask questions related to our Q3 financial performance, customer support procedures, or product specifications. Feel free to rephrase your question to match the available document corpus.">>,
     sources |-> <<>>]

\* generateMockResponse with its first two branches in the other order
generateMockResponse_SupportFirst(query) ==
    LET lowerQuery == toLowerCase(query)
    IN  IF includes(lowerQuery, KwContact) \/ includes(lowerQuery, KwSupport)
           \/ includes(lowerQuery, KwCustomer)
        THEN SupportReply
        ELSE IF includes(lowerQuery, KwRevenue) \/ includes(lowerQuery, KwQ3)
                \/ includes(lowerQuery, KwFinancial)
        THEN FinancialReply
        ELSE IF includes(lowerQuery, KwProduct) \/ includes(lowerQuery, KwFeature)
                \/ includes(lowerQuery, KwSpecification)
        THEN ProductReply
        ELSE FallbackReply

\* generateMockResponse as written
generateMockResponse(query) ==
    LET lowerQuery == toLowerCase(query)
    IN  IF includes(lowerQuery, KwRevenue) \/ includes(lowerQuery, KwQ3)
           \/ includes(lowerQuery, KwFinancial)
        THEN FinancialReply
        ELSE IF includes(lowerQuery, KwContact) \/ includes(lowerQuery, KwSupport)
                \/ includes(lowerQuery, KwCustomer)
        THEN SupportReply
        ELSE IF includes(lowerQuery, KwProduct) \/ includes(lowerQuery, KwFeature)
                \/ includes(lowerQuery, KwSpecification)
        THEN ProductReply
        ELSE FallbackReply

-----------------------------------------------------------------------------
(* What the backend may answer (remote variant) *)

ChatResponses ==
    {[response_text |-> <<"answer A">>,
      sources |-> <<[title |-> "report.pdf", uri |-> "file://report.pdf"]>>],
     [response_text |-> <<"answer B">>, sources |-> <<>>]}

Doc(i, s) == [id |-> i, name |-> "doc", status |-> s]

DocumentLists ==
    {<<>>,
     <<Doc("1", "pending")>>,
     <<Doc("1", "indexed")>>,
     <<Doc("1", "indexed"), Doc("2", "pending")>>}

NoFile == "no file"
Files == {NoFile, "notes.txt"}

MOCK_DOCUMENTS ==
    <<[id |-> "1", name |-> "Q3 Financial Report", status |-> "indexed"],
      [id |-> "2", name |-> "Customer Service Manual", status |-> "indexed"],
      [id |-> "3", name |-> "Product Specifications", status |-> "indexed"],
      [id |-> "4", name |-> "CEO Transcript 2024", status |-> "indexed"],
      [id |-> "5", name |-> "Market Analysis Report", status |-> "indexed"]>>

-----------------------------------------------------------------------------
(* Helpers on sequences *)

RemoveAt(s, i) == SubSeq(s, 1, i - 1) \o SubSeq(s, i + 1, Len(s))

Count(s, role) == Cardinality({i \in 1..Len(s) : s[i].role = role})

Op(name, rid) == [op |-> name, rid |-> rid]

-----------------------------------------------------------------------------
(* Reducers of chatSlice *)

\* addMessage pushing its payload twice
addMessage_Twice(state, payload) == Append(Append(state, payload), payload)

\* addMessage assigning instead of pushing
addMessage_Replace(state, payload) == <<payload>>

\* state.messages.push(action.payload)
addMessage(state, payload) == Append(state, payload)

\* exported by the remote slice and dispatched nowhere
setMessages(state, payload) == payload

\* a re-index that starts every document over
simulateIndexing_Reset(docs) == [i \in DOMAIN docs |-> [docs[i] EXCEPT !.status = "pending"]]

simulateIndexing(docs) ==
    [i \in 1..Len(docs) |-> [docs[i] EXCEPT !.status = "indexed"]]

-----------------------------------------------------------------------------
(* Messages built by handleSendMessage *)

ConnectivityError ==
    <<"Sorry, I'm having trouble connecting to the server. Please try again later.">>

UserMessage(t, text) ==
    [id |-> t, role |-> "user", content |-> text, sources |-> <<>>, timestamp |-> t]

\* a reply stored under the role of the asker
AiMessage_AsUser(t, content, sources) ==
    [id |-> t + 1, role |-> "user", content |-> content,
     sources |-> <<sources>>, timestamp |-> t]

AiMessage(t, content, sources) ==
    [id |-> t + 1, role |-> "assistant", content |-> content,
     sources |-> <<sources>>, timestamp |-> t]

\* the error turn without its text
ErrorMessage_Blank(t) ==
    [id |-> t + 1, role |-> "assistant", content |-> <<"">>,
     sources |-> <<>>, timestamp |-> t]

\* the error turn of the catch block: it has no sources field
ErrorMessage(t) ==
    [id |-> t + 1, role |-> "assistant", content |-> ConnectivityError,
     sources |-> <<>>, timestamp |-> t]

-----------------------------------------------------------------------------
\* a run of fetchStatusAndDocuments: where it stands (awaiting getStatus or
\* getDocuments), whether handleFileUpload awaits it, and the store fields
\* whose value it has changed so far
Refresh(rid, forUpload) ==
    [rid |-> rid, pc |-> "status", forUpload |-> forUpload, changed |-> {}]

(* Init: the store as constructed, the view mounted; in the remote variant *)
(* the mount effect has called fetchStatusAndDocuments once.               *)

Init ==
    /\ variant \in {"local", "remote"}
    /\ mounted = TRUE
    /\ now = 0
    /\ input = <<>>
    /\ messages = <<>>
    /\ isProcessing = FALSE
    /\ documents = IF variant = "local" THEN MOCK_DOCUMENTS ELSE <<>>
    /\ isIndexing = FALSE
    /\ indexedCount = 0
    /\ chat = <<>>
    /\ refreshes = IF variant = "remote" THEN <<Refresh(1, FALSE)>> ELSE <<>>
    /\ nRefresh = IF variant = "remote" THEN 1 ELSE 0
    /\ uploading = 0
    /\ indexTimers = 0
    /\ nIngest = 0
    /\ nPoll = 0
    /\ lastOp = Op("init", 0)
    /\ origin = [indexedCount |-> 0, documents |-> 0, succeeded |-> {}]

-----------------------------------------------------------------------------
(* ChatInterface *)

\* onChange of the textarea, which is disabled while isProcessing
onChange(text) ==
    /\ mounted
    /\ ~isProcessing
    /\ input' = text
    /\ lastOp' = Op("onChange", 0)
    /\ UNCHANGED <<variant, mounted, now, storeVars, chat, ingestVars>>

\* handleSendMessage without its early return
SendGuard_None == FALSE

\* the early return without its test of the input
SendGuard_ProcessingOnly == isProcessing

\* if (!input.trim() || isProcessing) return;
SendGuard == trim(input) = <<>> \/ isProcessing

\* what handleSendMessage leaves in flight: the reply timer (local) or the
\* postChatMessage call (remote), each holding the userMessage it captured
Resolution(userMessage, t) ==
    [userMessage |-> userMessage,
     due |-> IF variant = "local" THEN t + TimerDelay ELSE t]

\* handleSendMessage without dispatch(setIsProcessing(true))
SetProcessingOnSend_Forgotten == isProcessing

\* dispatch(setIsProcessing(true))
SetProcessingOnSend == TRUE

\* handleSendMessage up to its timer / its await.  It is reached from the
\* Enter key and the send button; a call while the controls are disabled
\* is included so that the handler's own guard is what decides.
handleSendMessage(elapsed) ==
    /\ mounted
    /\ IF SendGuard
       THEN /\ lastOp' = Op("sendIgnored", 0)
            /\ UNCHANGED <<variant, mounted, now, input, storeVars, chat, ingestVars>>
       ELSE LET t == now + elapsed
                userMessage == UserMessage(t, trim(input))
            IN  /\ Count(messages, "user") < MaxSubmissions
                /\ now' = t
                /\ messages' = addMessage(messages, userMessage)
                /\ input' = <<>>
                /\ isProcessing' = SetProcessingOnSend
                /\ chat' = Append(chat, Resolution(userMessage, t))
                /\ lastOp' = Op("send", 0)
                /\ UNCHANGED <<variant, mounted, docVars, ingestVars>>

\* a settled resolution without dispatch(setIsProcessing(false))
ClearProcessing_Forgotten == isProcessing

\* dispatch(setIsProcessing(false)), last in the timer callback (local) and
\* in the finally block (remote)
ClearProcessing == FALSE

\* the callback of setTimeout(..., 2000) in the local handleSendMessage;
\* timers of equal delay fire in the order they were set
replyTimeout(elapsed) ==
    /\ variant = "local"
    /\ chat # <<>>
    /\ LET t == (IF now < chat[1].due THEN chat[1].due ELSE now) + elapsed
           reply == generateMockResponse(chat[1].userMessage.content)
       IN  /\ now' = t
           /\ messages' = addMessage(messages, AiMessage(t, reply.content, reply.sources))
           /\ isProcessing' = ClearProcessing
           /\ chat' = Tail(chat)
           /\ lastOp' = Op("reply", 0)
           /\ UNCHANGED <<variant, mounted, input, docVars, ingestVars>>

\* the remote handleSendMessage after `await postChatMessage` returned
chatResolved(i, elapsed, response) ==
    /\ variant = "remote"
    /\ i \in DOMAIN chat
    /\ LET t == now + elapsed
       IN  /\ now' = t
           /\ messages' = addMessage(messages,
                             AiMessage(t, response.response_text, response.sources))
           /\ isProcessing' = ClearProcessing
           /\ chat' = RemoveAt(chat, i)
           /\ lastOp' = Op("chatResolved", 0)
           /\ UNCHANGED <<variant, mounted, input, docVars, ingestVars>>

\* the remote handleSendMessage after `await postChatMessage` threw
chatRejected(i, elapsed) ==
    /\ variant = "remote"
    /\ i \in DOMAIN chat
    /\ LET t == now + elapsed
       IN  /\ now' = t
           /\ messages' = addMessage(messages, ErrorMessage(t))
           /\ isProcessing' = ClearProcessing
           /\ chat' = RemoveAt(chat, i)
           /\ lastOp' = Op("chatRejected", 0)
           /\ UNCHANGED <<variant, mounted, input, docVars, ingestVars>>

\* the view is torn down: the polling interval is cleared, nothing in flight is
unmount ==
    /\ mounted
    /\ mounted' = FALSE
    /\ lastOp' = Op("unmount", 0)
    /\ UNCHANGED <<variant, now, input, storeVars, chat, ingestVars>>

-----------------------------------------------------------------------------
(* DocumentStatusPanel, remote variant *)

\* a call site that calls fetchStatusAndDocuments twice
StartRefresh_Twice(forUpload) ==
    /\ refreshes' = refreshes \o <<Refresh(nRefresh + 1, forUpload),
                                   Refresh(nRefresh + 2, forUpload)>>
    /\ nRefresh' = nRefresh + 2

\* a call of fetchStatusAndDocuments: getStatus is in flight
StartRefresh(forUpload) ==
    /\ refreshes' = Append(refreshes, Refresh(nRefresh + 1, forUpload))
    /\ nRefresh' = nRefresh + 1

\* handleFileUpload without its finally block after the refresh
AfterRefresh_StillBusy(r) == isIndexing

\* handleFileUpload awaits the refresh it started; when that refresh returns,
\* its finally block runs in the same turn
AfterRefresh(r) == IF r.forUpload THEN FALSE ELSE isIndexing

\* setInterval(fetchStatusAndDocuments, 180000), cleared on unmount
pollInterval ==
    /\ variant = "remote"
    /\ mounted
    /\ nPoll + nIngest < MaxPanelOps
    /\ StartRefresh(FALSE)
    /\ nPoll' = nPoll + 1
    /\ lastOp' = Op("poll", nRefresh + 1)
    /\ UNCHANGED <<variant, mounted, now, input, storeVars, chat, uploading,
                   indexTimers, nIngest, origin>>

\* fetchStatusAndDocuments after `await getStatus` returned
statusResolved(i, count) ==
    /\ i \in DOMAIN refreshes
    /\ refreshes[i].pc = "status"
    /\ indexedCount' = count
    /\ refreshes' = [refreshes EXCEPT
                        ![i].pc = "docs",
                        ![i].changed = IF count # indexedCount
                                       THEN {"indexedCount"} ELSE {}]
    /\ lastOp' = Op("statusResolved", refreshes[i].rid)
    /\ UNCHANGED <<variant, mounted, now, input, messages, isProcessing, documents,
                   isIndexing, chat, nRefresh, uploading, indexTimers, nIngest, nPoll>>

\* fetchStatusAndDocuments after `await getStatus` threw
statusRejected(i) ==
    /\ i \in DOMAIN refreshes
    /\ refreshes[i].pc = "status"
    /\ isIndexing' = AfterRefresh(refreshes[i])
    /\ refreshes' = RemoveAt(refreshes, i)
    /\ lastOp' = Op("statusRejected", refreshes[i].rid)
    /\ UNCHANGED <<variant, mounted, now, input, messages, isProcessing, documents,
                   indexedCount, chat, nRefresh, uploading, indexTimers, nIngest, nPoll, origin>>

\* fetchStatusAndDocuments after `await getDocuments` returned
docsResolved(i, docs) ==
    /\ i \in DOMAIN refreshes
    /\ refreshes[i].pc = "docs"
    /\ documents' = docs
    /\ isIndexing' = AfterRefresh(refreshes[i])
    /\ refreshes' = RemoveAt(refreshes, i)
    /\ lastOp' = Op("docsResolved", refreshes[i].rid)
    /\ UNCHANGED <<variant, mounted, now, input, messages, isProcessing,
                   indexedCount, chat, nRefresh, uploading, indexTimers, nIngest, nPoll>>

\* fetchStatusAndDocuments after `await getDocuments` threw
docsRejected(i) ==
    /\ i \in DOMAIN refreshes
    /\ refreshes[i].pc = "docs"
    /\ isIndexing' = AfterRefresh(refreshes[i])
    /\ refreshes' = RemoveAt(refreshes, i)
    /\ lastOp' = Op("docsRejected", refreshes[i].rid)
    /\ UNCHANGED <<variant, mounted, now, input, messages, isProcessing, documents,
                   indexedCount, chat, nRefresh, uploading, indexTimers, nIngest, nPoll, origin>>

\* handleFileUpload up to `await uploadDocument`; the upload button is
\* disabled while isIndexing and the handler has no guard of its own
handleFileUpload(file) ==
    /\ variant = "remote"
    /\ mounted
    /\ ~isIndexing
    /\ IF file = NoFile
       THEN /\ lastOp' = Op("uploadIgnored", 0)
            /\ UNCHANGED <<variant, mounted, now, input, storeVars, chat, ingestVars>>
       ELSE /\ nPoll + nIngest < MaxPanelOps
            /\ isIndexing' = TRUE
            /\ uploading' = uploading + 1
            /\ nIngest' = nIngest + 1
            /\ lastOp' = Op("upload", 0)
            /\ UNCHANGED <<variant, mounted, now, input, messages, isProcessing,
                           documents, indexedCount, chat, refreshes, nRefresh,
                           indexTimers, nPoll, origin>>

\* handleFileUpload after `await uploadDocument` returned
uploadResolved ==
    /\ uploading > 0
    /\ uploading' = uploading - 1
    /\ StartRefresh(TRUE)
    /\ lastOp' = Op("uploadResolved", nRefresh + 1)
    /\ UNCHANGED <<variant, mounted, now, input, storeVars, chat, indexTimers,
                   nIngest, nPoll, origin>>

\* a catch block of handleFileUpload that also ends the conversation's wait
uploadRejected_ClearsProcessing ==
    /\ uploading > 0
    /\ uploading' = uploading - 1
    /\ isIndexing' = FALSE
    /\ isProcessing' = FALSE
    /\ lastOp' = Op("uploadRejected", 0)
    /\ UNCHANGED <<variant, mounted, now, input, messages, documents,
                   indexedCount, chat, refreshes, nRefresh, indexTimers, nIngest, nPoll, origin>>

\* handleFileUpload after `await uploadDocument` threw
uploadRejected ==
    /\ uploading > 0
    /\ uploading' = uploading - 1
    /\ isIndexing' = FALSE
    /\ lastOp' = Op("uploadRejected", 0)
    /\ UNCHANGED <<variant, mounted, now, input, messages, isProcessing, documents,
                   indexedCount, chat, refreshes, nRefresh, indexTimers, nIngest, nPoll, origin>>

-----------------------------------------------------------------------------
(* DocumentStatusPanel, local variant *)

\* handleIndexDocuments; the re-index button is disabled while isIndexing
handleIndexDocuments ==
    /\ variant = "local"
    /\ mounted
    /\ ~isIndexing
    /\ nPoll + nIngest < MaxPanelOps
    /\ isIndexing' = TRUE
    /\ indexTimers' = indexTimers + 1
    /\ nIngest' = nIngest + 1
    /\ lastOp' = Op("index", 0)
    /\ UNCHANGED <<variant, mounted, now, input, messages, isProcessing, documents,
                   indexedCount, chat, refreshes, nRefresh, uploading, nPoll, origin>>

\* the callback of setTimeout(..., 2000) in handleIndexDocuments
indexTimeout ==
    /\ indexTimers > 0
    /\ documents' = simulateIndexing(documents)
    /\ isIndexing' = FALSE
    /\ indexTimers' = indexTimers - 1
    /\ lastOp' = Op("indexed", 0)
    /\ UNCHANGED <<variant, mounted, now, input, messages, isProcessing,
                   indexedCount, chat, refreshes, nRefresh, uploading, nIngest, nPoll, origin>>

-----------------------------------------------------------------------------

\* the history of the refreshes' writes: setIndexedCount of refresh i,
\* setDocuments of refresh i (with which the refresh has run to its end)
CountWrittenBy(i) == origin' = [origin EXCEPT !.indexedCount = refreshes[i].rid]
DocsWrittenBy(i) ==
    origin' = [origin EXCEPT !.documents = refreshes[i].rid,
                             !.succeeded = @ \cup {refreshes[i].rid}]

NextChat ==
    \/ \E text \in Inputs : onChange(text)
    \/ \E elapsed \in 0..MaxElapsed : handleSendMessage(elapsed)
    \/ \E elapsed \in 0..MaxElapsed : replyTimeout(elapsed)
    \/ \E i \in DOMAIN chat, elapsed \in 0..MaxElapsed, response \in ChatResponses :
          chatResolved(i, elapsed, response)
    \/ \E i \in DOMAIN chat, elapsed \in 0..MaxElapsed : chatRejected(i, elapsed)
    \/ unmount

NextDocs ==
    \/ unmount
    \/ pollInterval
    \/ \E i \in DOMAIN refreshes, count \in 0..MaxCount :
          statusResolved(i, count) /\ CountWrittenBy(i)
    \/ \E i \in DOMAIN refreshes : statusRejected(i)
    \/ \E i \in DOMAIN refreshes, docs \in DocumentLists :
          docsResolved(i, docs) /\ DocsWrittenBy(i)
    \/ \E i \in DOMAIN refreshes : docsRejected(i)
    \/ \E file \in Files : handleFileUpload(file)
    \/ uploadResolved
    \/ uploadRejected
    \/ handleIndexDocuments
    \/ indexTimeout

\* both panels together, driven with fewer values
QuietInputs == {QHello}
QuietResponses == {[response_text |-> <<"answer A">>,
                    sources |-> <<[title |-> "report.pdf", uri |-> "file://report.pdf"]>>]}
QuietLists == {<<Doc("1", "indexed")>>}
QuietCounts == {0, 1}

Next ==
    \/ \E text \in QuietInputs : onChange(text)
    \/ handleSendMessage(0)
    \/ replyTimeout(0)
    \/ \E i \in DOMAIN chat, response \in QuietResponses : chatResolved(i, 0, response)
    \/ \E i \in DOMAIN chat : chatRejected(i, 0)
    \/ unmount
    \/ pollInterval
    \/ \E i \in DOMAIN refreshes, count \in QuietCounts :
          statusResolved(i, count) /\ UNCHANGED origin
    \/ \E i \in DOMAIN refreshes : statusRejected(i)
    \/ \E i \in DOMAIN refreshes, docs \in QuietLists :
          docsResolved(i, docs) /\ UNCHANGED origin
    \/ \E i \in DOMAIN refreshes : docsRejected(i)
    \/ \E file \in Files : handleFileUpload(file)
    \/ uploadResolved
    \/ uploadRejected
    \/ handleIndexDocuments
    \/ indexTimeout

Spec == Init /\ [][Next]_vars

\* what the event loop guarantees: a pending timer fires, and a call that is
\* in flight settles, one way or the other
ChatSettles ==
    \/ replyTimeout(0)
    \/ \E i \in DOMAIN chat, response \in QuietResponses : chatResolved(i, 0, response)
    \/ \E i \in DOMAIN chat : chatRejected(i, 0)

RefreshSettles ==
    \/ \E i \in DOMAIN refreshes : statusResolved(i, 1) /\ UNCHANGED origin
    \/ \E i \in DOMAIN refreshes : statusRejected(i)
    \/ \E i \in DOMAIN refreshes, docs \in QuietLists :
          docsResolved(i, docs) /\ UNCHANGED origin
    \/ \E i \in DOMAIN refreshes : docsRejected(i)

UploadSettles == uploadResolved \/ uploadRejected

\* a session in which those guarantees are stated: every handler of both
\* panels except the polling interval (the refresh of the mount effect is in
\* flight from Init)
NextFair ==
    \/ \E text \in QuietInputs : onChange(text)
    \/ handleSendMessage(0)
    \/ ChatSettles
    \/ unmount
    \/ RefreshSettles
    \/ handleFileUpload("notes.txt")
    \/ UploadSettles
    \/ handleIndexDocuments
    \/ indexTimeout

FairSpec ==
    /\ Init /\ [][NextFair]_vars
    /\ WF_vars(ChatSettles)
    /\ WF_vars(RefreshSettles)
    /\ WF_vars(UploadSettles)
    /\ WF_vars(indexTimeout)

\* the conversation alone: the document panel is left as Init put it
ChatSpec == Init /\ [][NextChat]_vars

\* the document panel alone, with every answer of the backend and the history
\* of the refreshes' writes (`origin`), which the other specifications leave
\* as Init put it
DocsSpec == Init /\ [][NextDocs]_vars

-----------------------------------------------------------------------------
(* The local resolver alone, driven with every query of Queries *)

InitLocal == Init /\ variant = "local"

NextResolver ==
    \/ \E text \in Queries : onChange(text)
    \/ handleSendMessage(0)
    \/ replyTimeout(0)

ResolverSpec == InitLocal /\ [][NextResolver]_vars

-----------------------------------------------------------------------------
(* Claims *)

Settles == {"reply", "chatResolved", "chatRejected"}
Sends == {"send", "sendIgnored"}

Last(s) == s[Len(s)]
IsBlank(text) == \A i \in DOMAIN text : text[i] \in WhiteSpace
AppendsOne(role) ==
    /\ Len(messages') = Len(messages) + 1
    /\ SubSeq(messages', 1, Len(messages)) = messages
    /\ Last(messages').role = role

\* C1: an accepted submission appends exactly one user message at once and,
\* when its resolution settles (reply, success or failure), exactly one
\* assistant message; every accepted submission has either its one assistant
\* message or its one resolution still in flight, never none and never two.
C1_OneUserOneAssistant ==
    /\ [](Count(messages, "user") = Count(messages, "assistant") + Len(chat))
    /\ [][/\ (lastOp'.op = "send") =>
                (~IsBlank(input) /\ ~isProcessing /\ AppendsOne("user")
                 /\ Len(chat') = Len(chat) + 1)
          /\ (lastOp'.op \in Settles) =>
                (AppendsOne("assistant") /\ Len(chat') = Len(chat) - 1)
          /\ (lastOp'.op \notin Settles \cup {"send"}) => messages' = messages]_vars

C1_Witness ==
    /\ Len(messages) = 4
    /\ chat = <<>>
    /\ lastOp.op \in Settles

C3_BusySendIsNoOp ==
    [][(isProcessing /\ lastOp'.op \in Sends) =>
          UNCHANGED <<storeVars, input, chat>>]_vars

C3_Witness ==
    /\ isProcessing
    /\ chat # <<>>
    /\ lastOp.op = "sendIgnored"

\* C4: a call of handleSendMessage with an empty or whitespace-only input
\* mutates nothing in the store and starts no resolution.
C4_BlankSendIsNoOp ==
    [][(IsBlank(input) /\ lastOp'.op \in Sends) =>
          UNCHANGED <<storeVars, chat>>]_vars

C4_Witness ==
    /\ ~isProcessing
    /\ input = QBlank
    /\ lastOp.op = "sendIgnored"

\* C5: when postChatMessage fails, one assistant message with the fixed
\* connectivity-error text and no sources is appended, isProcessing is false
\* afterwards, and no new call is started.
C5_FailureYieldsErrorTurn ==
    [][(lastOp'.op = "chatRejected") =>
          /\ AppendsOne("assistant")
          /\ Last(messages').content =
               <<"Sorry, I'm having trouble connecting to the server. Please try again later.">>
          /\ Last(messages').sources \in {<<>>, << <<>> >>}
          /\ isProcessing' = FALSE
          /\ Len(chat') = Len(chat) - 1]_vars

C5_Witness ==
    /\ variant = "remote"
    /\ lastOp.op = "chatRejected"
    /\ Len(messages) = 2
    /\ ~isProcessing

\* C6: at most one resolution is in flight, and a resolution that settles
\* appends its assistant message directly after the user message it was
\* started for, so the messages of two submissions never interleave.
C6_OneResolutionInFlight ==
    /\ [](Len(chat) <= 1)
    /\ [][(lastOp'.op \in Settles) =>
             \E i \in DOMAIN chat :
                /\ chat' = RemoveAt(chat, i)
                /\ messages # <<>>
                /\ Last(messages) = chat[i].userMessage
                /\ AppendsOne("assistant")]_vars

C6_Witness ==
    /\ Len(messages) = 3
    /\ Len(chat) = 1
    /\ lastOp.op = "sendIgnored"


HasFinancial(q) ==
    includes(q, KwRevenue) \/ includes(q, KwQ3) \/ includes(q, KwFinancial)
HasSupport(q) ==
    includes(q, KwContact) \/ includes(q, KwSupport) \/ includes(q, KwCustomer)
HasProduct(q) ==
    includes(q, KwProduct) \/ includes(q, KwFeature) \/ includes(q, KwSpecification)
Gives(m, reply) == m.content = reply.content /\ m.sources = <<reply.sources>>
Replies == {k \in 2..Len(messages) : messages[k].role = "assistant"}

\* C7: every reply of the local resolver is decided by its lower-cased query
\* with priority financial > support > product > fallback: a query holding a
\* financial keyword gets the financial reply whatever else it holds, and a
\* query holding no keyword gets the fallback reply with zero sources; equal
\* queries get equal replies.
C7_ResolverPriority ==
    /\ \A k \in Replies :
          LET q == toLowerCase(messages[k - 1].content)
              m == messages[k]
          IN  /\ HasFinancial(q) => Gives(m, FinancialReply)
              /\ (~HasFinancial(q) /\ HasSupport(q)) => Gives(m, SupportReply)
              /\ (~HasFinancial(q) /\ ~HasSupport(q) /\ HasProduct(q)) =>
                    Gives(m, ProductReply)
              /\ (~HasFinancial(q) /\ ~HasSupport(q) /\ ~HasProduct(q)) =>
                    (Gives(m, FallbackReply) /\ m.sources = << <<>> >>)
    /\ \A j, k \in Replies :
          messages[j - 1].content = messages[k - 1].content =>
             (messages[j].content = messages[k].content
              /\ messages[j].sources = messages[k].sources)

C7_Witness ==
    \E j, k \in Replies :
       /\ messages[j - 1].content = trim(QRevSupport)
       /\ Gives(messages[j], FinancialReply)
       /\ messages[k - 1].content = QHello
       /\ Len(messages[k].sources[1]) = 0

\* C8: messages is append-only: in every step the messages before the step
\* are a prefix of the messages after it.
C8_AppendOnly ==
    [][/\ Len(messages') >= Len(messages)
       /\ SubSeq(messages', 1, Len(messages)) = messages]_vars

C8_Witness ==
    /\ Len(messages) = 4
    /\ lastOp.op \in {"statusResolved", "docsResolved", "uploadResolved", "indexed"}


\* C9: neither busy flag stays stuck: once set, isProcessing and isIndexing
\* are each set back to false when the resolution, the upload with its
\* refresh, or the timer has settled, whatever the outcome.
C9_BusyFlagsAreCleared ==
    /\ isProcessing ~> ~isProcessing
    /\ isIndexing ~> ~isIndexing

C9_Witness ==
    /\ variant = "remote"
    /\ ~isProcessing /\ Len(messages) = 2 /\ chat = <<>>
    /\ ~isIndexing /\ nIngest = 1 /\ uploading = 0
    /\ lastOp.op \in {"statusRejected", "docsRejected", "uploadRejected", "chatRejected"}

RefreshFailures == {"statusRejected", "docsRejected"}

\* C10: a refresh or upload that fails while the view is mounted leaves documents and indexedCount as
\* they were before it began: the failing run has changed neither field, the
\* failing step changes neither, and the upload's isIndexing is cleared.
C10_FailureLeavesLastKnownGood ==
    [][/\ (mounted' /\ lastOp'.op \in RefreshFailures) =>
             \E i \in DOMAIN refreshes :
                /\ refreshes[i].rid = lastOp'.rid
                /\ refreshes[i].changed = {}
                /\ UNCHANGED <<documents, indexedCount>>
                /\ refreshes[i].forUpload => ~isIndexing'
       /\ (mounted' /\ lastOp'.op = "uploadRejected") =>
             (UNCHANGED <<documents, indexedCount>> /\ ~isIndexing')]_vars

\* the status a document of the list has, by its id
StatusOf(docs, id) == {docs[i].status : i \in {j \in DOMAIN docs : docs[j].id = id}}

\* C11: a document's status never reverts: in every step, a document that is
\* indexed before the step is not pending after it, whether the step is the
\* local simulateIndexing or a remote setDocuments.
C11_StatusNeverReverts ==
    [][\A i \in DOMAIN documents :
          documents[i].status = "indexed" =>
             "pending" \notin StatusOf(documents', documents[i].id)]_vars

\* C12: the ids of the messages are pairwise distinct, after any sequence of
\* submissions and resolutions (ids being Date.now() for a user message and
\* Date.now() + 1 for an assistant message).
C12_MessageIdsUnique ==
    \A j, k \in DOMAIN messages : messages[j].id = messages[k].id => j = k

\* the count the local panel shows: documents.filter(status === 'indexed').length
IndexedDocs(docs) == Cardinality({i \in DOMAIN docs : docs[i].status = "indexed"})

\* C13: indexedCount is lowered only by a step in which a refresh writes the
\* lower value the status endpoint returned: no submission, resolution, upload
\* start or finish, re-index or failed refresh lowers it; in the local variant
\* the derived count of indexed documents is never lowered at all.
C13_CountLoweredOnlyByRefresh ==
    [][/\ indexedCount' < indexedCount => lastOp'.op = "statusResolved"
       /\ variant = "local" => IndexedDocs(documents') >= IndexedDocs(documents)]_vars

C13_Witness ==
    /\ lastOp.op = "statusResolved"
    /\ indexedCount = 0
    /\ \E i \in DOMAIN refreshes :
          /\ refreshes[i].rid = lastOp.rid
          /\ refreshes[i].rid > 1
          /\ "indexedCount" \in refreshes[i].changed

PanelOps == {"poll", "statusResolved", "statusRejected", "docsResolved", "docsRejected",
             "upload", "uploadIgnored", "uploadResolved", "uploadRejected",
             "index", "indexed"}
ChatOps == Sends \cup Settles

\* C14: a step of the document panel (the mount refresh, a polling refresh,
\* an upload, the local re-index) changes at most documents, indexedCount and
\* isIndexing and leaves messages and isProcessing as they were; a submission
\* or resolution step leaves documents, indexedCount and isIndexing as they
\* were.
C14_PanelsKeepToTheirFields ==
    [][/\ lastOp'.op \in PanelOps => UNCHANGED <<messages, isProcessing>>
       /\ lastOp'.op \in ChatOps => UNCHANGED <<documents, indexedCount, isIndexing>>]_vars

C14_Witness ==
    /\ isProcessing
    /\ Len(messages) = 3
    /\ lastOp.op = "uploadRejected"
    /\ indexedCount = 1
    /\ documents # <<>>

\* the refreshes in flight that a handleFileUpload awaits
UploadRefreshes == {i \in DOMAIN refreshes : refreshes[i].forUpload}
RefreshEnds == {"statusRejected", "docsResolved", "docsRejected"}

\* C15: the remote handleFileUpload holds isIndexing from its start until its
\* follow-up refresh has settled: isIndexing is true exactly while the upload
\* or its refresh is in flight; an upload that succeeds starts exactly one
\* refresh, which starts and ends with isIndexing true; an upload that fails
\* starts none; and isIndexing is set back to false only by the step that ends
\* that refresh or by the failed upload.
C15_BusyUntilRefreshSettled ==
    /\ [](variant = "remote" =>
            /\ uploading + Cardinality(UploadRefreshes) <= 1
            /\ isIndexing <=> (uploading + Cardinality(UploadRefreshes) = 1))
    /\ [][/\ lastOp'.op = "upload" => (~isIndexing /\ isIndexing' /\ refreshes' = refreshes)
          /\ lastOp'.op = "uploadResolved" =>
                /\ isIndexing /\ isIndexing'
                /\ Len(refreshes') = Len(refreshes) + 1
                /\ SubSeq(refreshes', 1, Len(refreshes)) = refreshes
                /\ Last(refreshes').forUpload
                /\ Last(refreshes').rid = lastOp'.rid
          /\ lastOp'.op = "uploadRejected" => (refreshes' = refreshes /\ ~isIndexing')
          /\ (variant = "remote" /\ isIndexing /\ ~isIndexing') =>
                \/ lastOp'.op = "uploadRejected"
                \/ /\ lastOp'.op \in RefreshEnds
                   /\ \E i \in UploadRefreshes :
                         /\ refreshes[i].rid = lastOp'.rid
                         /\ refreshes' = RemoveAt(refreshes, i)]_vars

C15_Witness ==
    /\ variant = "remote"
    /\ lastOp.op = "docsResolved"
    /\ ~isIndexing
    /\ nIngest = 1
    /\ uploading = 0
    /\ UploadRefreshes = {}
    /\ Len(refreshes) = 1

RefreshCompletions == {"statusResolved", "statusRejected", "docsResolved", "docsRejected"}

\* C16: once the view is torn down, the completion of a resolution or of a
\* refresh that was in flight is a no-op: the step changes nothing in the
\* store.
C16_CompletionAfterTeardownIsNoOp ==
    [][(~mounted /\ lastOp'.op \in Settles \cup RefreshCompletions) =>
          UNCHANGED storeVars]_vars

\* C17: the messages alternate in role, beginning with a user message: the
\* odd positions hold user messages and the even ones assistant messages, no
\* two neighbours have the same role, and the user messages outnumber the
\* assistant messages by zero or one.
C17_RolesAlternate ==
    /\ \A k \in DOMAIN messages :
          messages[k].role = IF k % 2 = 1 THEN "user" ELSE "assistant"
    /\ \A k \in 1..(Len(messages) - 1) : messages[k].role # messages[k + 1].role
    /\ Count(messages, "user") - Count(messages, "assistant") \in {0, 1}

C17_Witness ==
    /\ variant = "remote"
    /\ Len(messages) = 4
    /\ messages[2].content = ConnectivityError
    /\ messages[4].sources # <<>>

\* C18: when refreshes overlap, the store ends with what the refresh started
\* last has read: once every refresh started has run to its end without a
\* failure and none is in flight, indexedCount and documents both come from
\* the refresh started last; a value written by a refresh is never overwritten
\* by a refresh started before it; and the two fields do not end up written
\* by two different refreshes.
C18_LastStartedRefreshWins ==
    /\ []((/\ variant = "remote"
           /\ refreshes = <<>>
           /\ origin.succeeded = 1..nRefresh) =>
             (origin.indexedCount = nRefresh /\ origin.documents = nRefresh))
    /\ [][/\ origin'.indexedCount >= origin.indexedCount
          /\ origin'.documents >= origin.documents]_vars

====
